---- MODULE Spec2Model ----
(***************************************************************************)
(* Signal fusion, signal lifecycle and job lanes of SmartX-Backend.        *)
(*                                                                         *)
(* GrokEngine.analyzeMarket collects the signals of the three analysers,   *)
(* fuses them into one GROK_ENGINE signal and stores it; executeTrade (in  *)
(* GrokEngine and in CyberMetrics) reads a signal and then writes its      *)
(* status; HiveMatrix keeps three Bull queues.  Every `await` of the code  *)
(* is a point where another call may run, so each handler is cut into one  *)
(* action per database round trip.                                         *)
(*                                                                         *)
(* Numbers.  A confidence is a DECIMAL(5,2): it is kept in hundredths of a *)
(* percent (9000 is 90.00).  The weights of the fusion are JavaScript      *)
(* doubles; they are modelled as exact fractions [num, den], with 0/0 the  *)
(* NaN of the code, so a statement about them holds of the code up to the  *)
(* rounding of double arithmetic.                                          *)
(***************************************************************************)
EXTENDS Integers, Sequences, FiniteSets, TLC

VARIABLES store, amRuns, amPc, amSymbol, amSignals, amPatternId, amAcc,
          amResult, calls, queues, jobs, workers, status, adds, now

vars == <<store, amRuns, amPc, amSymbol, amSignals, amPatternId, amAcc,
          amResult, calls, queues, jobs, workers, status, adds, now>>

(* The locals and the result of the analyzeMarket call. *)
amVars == <<amRuns, amPc, amSymbol, amSignals, amPatternId, amAcc, amResult>>
(* The executeTrade calls made so far: where each is and what it returned. *)
etVars == <<calls>>
(* The queues of HiveMatrix, their jobs and processors, the                *)
(* getSystemStatus call and the queueTrade and queueAnalysis calls that    *)
(* are between two awaits.                                                 *)
hmVars == <<queues, jobs, workers, status, adds>>
(* Date.now(), in hours since the program started. *)
clockVars == <<now>>

(***************************************************************************)
(* Bounds of the model.                                                    *)
(***************************************************************************)
MaxStore == 4
MaxRuns == 1
MaxInputs == 3
MaxCalls == 2
MaxJobs == 1

(***************************************************************************)
(* Enumerations of the TradingSignal model.                                *)
(***************************************************************************)
Actions == {"buy", "sell", "hold"}
Sources == {"CYBER_METRICS", "TWITTER_MONITOR", "DEEPSEEK_AI", "GROK_ENGINE"}
Statuses == {"pending", "executed", "expired", "cancelled"}
Terminal == Statuses \ {"pending"}
Symbols == {"BTC", "ETH"}
(* The symbols the callers ask about (the two symbols are interchangeable). *)
RequestedSymbols == {"BTC"}

(***************************************************************************)
(* Fractions.  NaN is 0/0, the value JavaScript gives to 0 / 0; n/0 with   *)
(* n > 0 is Infinity.  Every comparison with NaN is false.                 *)
(***************************************************************************)
NaN == [num |-> 0, den |-> 0]

RECURSIVE GCD(_, _)
GCD(a, b) == IF b = 0 THEN a ELSE GCD(b, a % b)

Abs(n) == IF n < 0 THEN -n ELSE n

Rat(n, d) ==
  IF d = 0 THEN (IF n = 0 THEN NaN ELSE [num |-> 1, den |-> 0])
  ELSE LET g == GCD(Abs(n), Abs(d))
           s == IF d < 0 THEN -1 ELSE 1
       IN [num |-> s * (n \div g), den |-> s * (d \div g)]

RAdd(a, b) == IF a = NaN \/ b = NaN THEN NaN
              ELSE Rat(a.num * b.den + b.num * a.den, a.den * b.den)
RSub(a, b) == IF a = NaN \/ b = NaN THEN NaN
              ELSE Rat(a.num * b.den - b.num * a.den, a.den * b.den)
RMul(a, b) == IF a = NaN \/ b = NaN THEN NaN
              ELSE Rat(a.num * b.num, a.den * b.den)
RDiv(a, b) == IF a = NaN \/ b = NaN THEN NaN
              ELSE Rat(a.num * b.den, a.den * b.num)
RGt(a, b) == a # NaN /\ b # NaN /\ a.num * b.den > b.num * a.den
RLe(a, b) == a # NaN /\ b # NaN /\ a.num * b.den <= b.num * a.den

Zero == Rat(0, 1)
One == Rat(1, 1)
Hundred == Rat(100, 1)

(* A stored confidence (hundredths of a percent) read as a number. *)
NaNConf == -1
ConfValue(c) == IF c = NaNConf THEN NaN ELSE Rat(c, 100)

(* A number written to the DECIMAL(5,2) column: rounded to two places. *)
ToDecimal(r) ==
  IF r = NaN THEN NaNConf
  ELSE (2 * 100 * r.num + r.den) \div (2 * r.den)

(* signal.confidence < 75 *)
ConfidenceThreshold == 75
BelowThreshold(c) == RGt(Rat(ConfidenceThreshold, 1), ConfValue(c))

(***************************************************************************)
(* TradingSignal rows.  The id of a row is its position in the store.      *)
(* Metadata payloads that the core never reads are kept as the token       *)
(* "opaque" under the keys the producer writes.                            *)
(***************************************************************************)
Opaque == "opaque"
CyberMeta == [predictionData |-> Opaque, marketDataId |-> Opaque]
TwitterMeta == [tweetCount |-> Opaque, avgSentiment |-> Opaque, influencers |-> Opaque]
DeepseekMeta == [patternName |-> Opaque, patternIndex |-> Opaque, confidence |-> Opaque]

NoSignal == [none |-> TRUE]
NoResult == [none |-> TRUE]

(* expiresAt: new Date(Date.now() + h * 60 * 60 * 1000), h by the source *)
CyberHours == 4
TwitterHours == 24
DeepseekHours == 24
GrokHours == 12
Lifetime(source) ==
  IF source = "CYBER_METRICS" THEN CyberHours
  ELSE IF source = "TWITTER_MONITOR" THEN TwitterHours
  ELSE IF source = "DEEPSEEK_AI" THEN DeepseekHours
  ELSE GrokHours

(* TradingSignal.create({..., status: 'pending', expiresAt, ...}) *)
NewSignal(id, symbol, action, confidence, source, metadata) ==
  [id |-> id, symbol |-> symbol, action |-> action, confidence |-> confidence,
   source |-> source, status |-> "pending", expiresAt |-> now + Lifetime(source),
   metadata |-> metadata]

(* TradingSignal.findByPk(id): the row, or null *)
FindByPk(id) == IF id \in 1..Len(store) THEN store[id] ELSE NoSignal

(* Confidences the three analysers can produce (hundredths of a percent):  *)
(* CyberMetrics the largest of three softmax outputs (above 33.33),        *)
(* TwitterMonitor above 30 and capped at 95, DeepseekAI above 70.          *)
CyberConfs == {9000}
TwitterConfs == {5000}
DeepseekConfs == {8000}
TwitterActions == {"buy", "sell"}

(***************************************************************************)
(* GrokEngine.analyzeMarket: the weighted decision.                        *)
(***************************************************************************)
(* for (const signal of signals) { weight = confidence / 100; ... } *)
(* let buyWeight = 0; let sellWeight = 0; let totalWeight = 0; *)
ZeroAcc == [buyWeight |-> Zero, sellWeight |-> Zero, totalWeight |-> Zero]

(* Accumulate with the hold signals left out of totalWeight. *)
RECURSIVE AccumulateDirectional(_, _)
AccumulateDirectional(signals, k) ==
  IF k = 0
  THEN ZeroAcc
  ELSE LET acc == AccumulateDirectional(signals, k - 1)
           weight == RDiv(ConfValue(signals[k].confidence), Hundred)
       IN [buyWeight |-> IF signals[k].action = "buy"
                         THEN RAdd(acc.buyWeight, weight) ELSE acc.buyWeight,
           sellWeight |-> IF signals[k].action = "sell"
                          THEN RAdd(acc.sellWeight, weight) ELSE acc.sellWeight,
           totalWeight |-> IF signals[k].action = "hold"
                           THEN acc.totalWeight
                           ELSE RAdd(acc.totalWeight, weight)]

RECURSIVE Accumulate(_, _)
Accumulate(signals, k) ==
  IF k = 0
  THEN ZeroAcc
  ELSE LET acc == Accumulate(signals, k - 1)
           weight == RDiv(ConfValue(signals[k].confidence), Hundred)
       IN [buyWeight |-> IF signals[k].action = "buy"
                         THEN RAdd(acc.buyWeight, weight) ELSE acc.buyWeight,
           sellWeight |-> IF signals[k].action = "sell"
                          THEN RAdd(acc.sellWeight, weight) ELSE acc.sellWeight,
           totalWeight |-> RAdd(acc.totalWeight, weight)]

(* Normalize with the hold weight taken as 1 - buyWeight. *)
NormalizeHoldFromBuy(acc) ==
  LET b == RDiv(acc.buyWeight, acc.totalWeight)
      s == RDiv(acc.sellWeight, acc.totalWeight)
  IN [buyWeight |-> b, sellWeight |-> s, holdWeight |-> RSub(One, b)]

(* buyWeight / totalWeight, sellWeight / totalWeight, 1 - buy - sell *)
Normalize(acc) ==
  LET b == RDiv(acc.buyWeight, acc.totalWeight)
      s == RDiv(acc.sellWeight, acc.totalWeight)
  IN [buyWeight |-> b, sellWeight |-> s, holdWeight |-> RSub(RSub(One, b), s)]

(* Decide with the sell weight only required to reach the hold weight. *)
DecideSellAtTie(w) ==
  IF RGt(w.buyWeight, w.sellWeight) /\ RGt(w.buyWeight, w.holdWeight)
  THEN [action |-> "buy", confidence |-> RMul(w.buyWeight, Hundred)]
  ELSE IF RGt(w.sellWeight, w.buyWeight) /\ ~RGt(w.holdWeight, w.sellWeight)
  THEN [action |-> "sell", confidence |-> RMul(w.sellWeight, Hundred)]
  ELSE [action |-> "hold", confidence |-> RMul(w.holdWeight, Hundred)]

(* Decide with a buy/sell tie going to buy. *)
DecideBuyAtTie(w) ==
  IF ~RGt(w.sellWeight, w.buyWeight) /\ RGt(w.buyWeight, w.holdWeight)
  THEN [action |-> "buy", confidence |-> RMul(w.buyWeight, Hundred)]
  ELSE IF RGt(w.sellWeight, w.buyWeight) /\ RGt(w.sellWeight, w.holdWeight)
  THEN [action |-> "sell", confidence |-> RMul(w.sellWeight, Hundred)]
  ELSE [action |-> "hold", confidence |-> RMul(w.holdWeight, Hundred)]

(* let action = 'hold'; if (buy > sell && buy > hold) ... else if ... *)
Decide(w) ==
  IF RGt(w.buyWeight, w.sellWeight) /\ RGt(w.buyWeight, w.holdWeight)
  THEN [action |-> "buy", confidence |-> RMul(w.buyWeight, Hundred)]
  ELSE IF RGt(w.sellWeight, w.buyWeight) /\ RGt(w.sellWeight, w.holdWeight)
  THEN [action |-> "sell", confidence |-> RMul(w.sellWeight, Hundred)]
  ELSE [action |-> "hold", confidence |-> RMul(w.holdWeight, Hundred)]

SourcesOf(signals) == [k \in 1..Len(signals) |-> signals[k].source]
IdsOf(signals) == [k \in 1..Len(signals) |-> signals[k].id]

(* GrokMeta with the inputs listed newest first. *)
GrokMetaNewestFirst(signals, w) ==
  [signalSources |-> [k \in 1..Len(signals) |-> signals[Len(signals) + 1 - k].source],
   signalIds |-> [k \in 1..Len(signals) |-> signals[Len(signals) + 1 - k].id],
   buyWeight |-> w.buyWeight, sellWeight |-> w.sellWeight,
   holdWeight |-> w.holdWeight]

(* metadata: { signalSources, signalIds, buyWeight, sellWeight, holdWeight } *)
GrokMeta(signals, w) ==
  [signalSources |-> SourcesOf(signals), signalIds |-> IdsOf(signals),
   buyWeight |-> w.buyWeight, sellWeight |-> w.sellWeight,
   holdWeight |-> w.holdWeight]

(* What the weighted decision computes from the collected signals. *)
Fuse(signals) ==
  LET acc == Accumulate(signals, Len(signals))
      w == Normalize(acc)
      d == Decide(w)
  IN [acc |-> acc, weights |-> w, action |-> d.action, confidence |-> d.confidence]

(* validate: { min: 0, max: 100 } on a confidence that is a number *)
ValidConfidence(c) == c = NaNConf \/ (0 <= c /\ c <= 10000)

(* Create that also marks the signals a composite row was fused from. *)
CreateMarkingInputs(row) ==
  Append([i \in 1..Len(store) |->
            IF "signalIds" \in DOMAIN row.metadata
               /\ \E k \in 1..Len(row.metadata.signalIds) : row.metadata.signalIds[k] = i
            THEN [store[i] EXCEPT !.status = "executed"]
            ELSE store[i]],
         row)

(* TradingSignal.create(row): the store with the row added *)
Create(row) == Append(store, row)

(* A fusion without signals answered with a hold decision. *)
NoSignalsHold == [success |-> TRUE, action |-> "hold", confidence |-> Zero,
                  signalId |-> 0, sourceSignals |-> 0]

(* return { success: false, message: 'No valid signals found' } *)
NoSignalsResult == [success |-> FALSE, message |-> "No valid signals found"]

(***************************************************************************)
(* GrokEngine.analyzeMarket(symbol), one action per await.                 *)
(***************************************************************************)
AMStart(symbol) ==
  /\ amPc = "idle"
  /\ amRuns < MaxRuns
  /\ amRuns' = amRuns + 1
  /\ amPc' = "cyber"
  /\ amSymbol' = symbol
  /\ amSignals' = <<>>
  /\ amPatternId' = 0
  /\ amAcc' = ZeroAcc
  /\ amResult' = NoResult
  /\ UNCHANGED <<store, etVars, hmVars, clockVars>>

(* cyberMetrics.analyzeMarket(symbol): a new CYBER_METRICS signal, or       *)
(* { success: false } when the history is too short.                       *)
AMCyber ==
  /\ amPc = "cyber"
  /\ amPc' = "twitter"
  /\ \/ UNCHANGED <<store, amSignals>>
     \/ /\ Len(store) < MaxStore
        /\ \E a \in Actions, c \in CyberConfs :
             LET row == NewSignal(Len(store) + 1, amSymbol, a, c,
                                  "CYBER_METRICS", CyberMeta)
             IN /\ store' = Create(row)
                /\ amSignals' = Append(amSignals, row)
  /\ UNCHANGED <<amRuns, amSymbol, amPatternId, amAcc, amResult, etVars, hmVars, clockVars>>

(* Sequences of at most n distinct symbols. *)
RECURSIVE DistinctSeqs(_, _)
DistinctSeqs(S, n) ==
  IF n = 0 THEN {<<>>}
  ELSE LET shorter == DistinctSeqs(S, n - 1)
       IN shorter \cup
          {Append(p[1], p[2]) :
             p \in {r \in shorter \X S :
                      \A k \in 1..Len(r[1]) : r[1][k] # r[2]}}

MaxTwitterSignals == 1

(* twitterMonitor.analyzeTweets(): one new TWITTER_MONITOR signal for each  *)
(* symbol with enough tweets and a non-hold sentiment; then                *)
(* twitterSignals.find(signal => signal.symbol === symbol).                *)
AMTwitter ==
  /\ amPc = "twitter"
  /\ amPc' = "deepseek"
  /\ \E syms \in DistinctSeqs(Symbols, MaxTwitterSignals) :
     \E acts \in [1..Len(syms) -> TwitterActions] :
     \E confs \in [1..Len(syms) -> TwitterConfs] :
       LET rows == [k \in 1..Len(syms) |->
                      NewSignal(Len(store) + k, syms[k], acts[k], confs[k],
                                "TWITTER_MONITOR", TwitterMeta)]
           found == {k \in 1..Len(syms) : syms[k] = amSymbol}
       IN /\ Len(store) + Len(syms) <= MaxStore
          /\ store' = store \o rows
          /\ amSignals' = IF found = {} THEN amSignals
                          ELSE Append(amSignals, rows[CHOOSE k \in found : TRUE])
  /\ UNCHANGED <<amRuns, amSymbol, amPatternId, amAcc, amResult, etVars, hmVars, clockVars>>

(* deepseekAI.analyzePatterns(symbol): a new DEEPSEEK_AI signal and its id  *)
(* when the pattern confidence is above 70, no signalId otherwise.         *)
AMDeepseek ==
  /\ amPc = "deepseek"
  /\ \/ /\ amPc' = "fuse"
        /\ UNCHANGED <<store, amPatternId>>
     \/ /\ Len(store) < MaxStore
        /\ \E a \in Actions, c \in DeepseekConfs :
             store' = Create(NewSignal(Len(store) + 1, amSymbol, a, c,
                                       "DEEPSEEK_AI", DeepseekMeta))
        /\ amPatternId' = Len(store) + 1
        /\ amPc' = "findPattern"
  /\ UNCHANGED <<amRuns, amSymbol, amSignals, amAcc, amResult, etVars, hmVars, clockVars>>

(* patternSignal = await TradingSignal.findByPk(patternAnalysis.signalId) *)
AMFindPattern ==
  /\ amPc = "findPattern"
  /\ amPc' = "fuse"
  /\ amSignals' = IF FindByPk(amPatternId) = NoSignal THEN amSignals
                  ELSE Append(amSignals, FindByPk(amPatternId))
  /\ UNCHANGED <<store, amRuns, amSymbol, amPatternId, amAcc, amResult, etVars,
                 hmVars, clockVars>>

(* An awaited call rejects: the catch block rethrows and the call ends. *)
AMThrow ==
  /\ amPc \in {"cyber", "twitter", "deepseek", "findPattern", "fuse"}
  /\ amPc' = "idle"
  /\ amResult' = [error |-> "Market analysis failed"]
  /\ UNCHANGED <<store, amRuns, amSymbol, amSignals, amPatternId, amAcc, etVars,
                 hmVars, clockVars>>

(* What TradingSignal.create does with a confidence.  NaN is not a number  *)
(* the min/max validators and the column are specified for: the create     *)
(* either stores it or rejects.                                            *)
CreateOutcomes(conf) ==
  IF conf = NaNConf THEN {"stored", "rejected"}
  ELSE IF ValidConfidence(conf) THEN {"stored"} ELSE {"rejected"}

(* From the length check to the stored GROK_ENGINE signal and the result. *)
AMFuse ==
  /\ amPc = "fuse"
  /\ amPc' = "idle"
  /\ IF Len(amSignals) = 0
     THEN /\ amResult' = NoSignalsResult
          /\ UNCHANGED <<store, amAcc>>
     ELSE LET f == Fuse(amSignals)
              conf == ToDecimal(f.confidence)
              row == NewSignal(Len(store) + 1, amSymbol, f.action, conf,
                               "GROK_ENGINE", GrokMeta(amSignals, f.weights))
          IN /\ Len(store) < MaxStore
             /\ amAcc' = f.acc
             /\ \E outcome \in CreateOutcomes(conf) :
                  IF outcome = "stored"
                  THEN /\ store' = Create(row)
                       /\ amResult' = [success |-> TRUE, action |-> f.action,
                                       confidence |-> f.confidence,
                                       signalId |-> Len(store) + 1,
                                       sourceSignals |-> Len(amSignals)]
                  ELSE /\ amResult' = [error |-> "Market analysis failed"]
                       /\ UNCHANGED store
  /\ UNCHANGED <<amRuns, amSymbol, amSignals, amPatternId, etVars, hmVars, clockVars>>

(***************************************************************************)
(* executeTrade(signalId) of GrokEngine and of CyberMetrics: the read      *)
(* (findByPk and the checks that follow it) and the write (signal.update)  *)
(* are two round trips to the database.                                    *)
(***************************************************************************)
Modules == {"GROK_ENGINE", "CYBER_METRICS"}
NoCall == [pc |-> "idle", module |-> "GROK_ENGINE", signal |-> NoSignal,
           write |-> "none", result |-> NoResult]

TradeError(message) == [error |-> "Trade execution failed", message |-> message]

(* ReadError without the check of the source. *)
ReadErrorAnySource(module, signal) ==
  IF signal = NoSignal THEN "Trading signal not found"
  ELSE IF signal.status # "pending" THEN "Signal is already " \o signal.status
  ELSE ""

(* The error the checks after findByPk throw, or "" when they pass. *)
ReadError(module, signal) ==
  IF signal = NoSignal THEN "Trading signal not found"
  ELSE IF module = "GROK_ENGINE" /\ signal.source # "GROK_ENGINE"
  THEN "Signal is not from Grok Engine"
  ELSE IF signal.status # "pending" THEN "Signal is already " \o signal.status
  ELSE ""

(* GrokEngine cancels below the threshold; otherwise both modules execute. *)
PlannedWrite(module, signal) ==
  IF module = "GROK_ENGINE" /\ BelowThreshold(signal.confidence)
  THEN "cancelled" ELSE "executed"

(* The calls are numbered in the order in which they are made. *)
NextCall(c) == calls[c].pc = "idle" /\ \A d \in 1..(c - 1) : calls[d].pc # "idle"

(* findByPk and the checks: the call throws, or goes on to its update. *)
ETRead(c, module, id) ==
  /\ NextCall(c)
  /\ id \in 1..(Len(store) + 1)
  /\ LET signal == FindByPk(id)
         err == ReadError(module, signal)
     IN calls' = [calls EXCEPT ![c] =
          IF err # ""
          THEN [pc |-> "done", module |-> module, signal |-> signal,
                write |-> "none", result |-> TradeError(err)]
          ELSE [pc |-> "update", module |-> module, signal |-> signal,
                write |-> PlannedWrite(module, signal), result |-> NoResult]]
  /\ UNCHANGED <<store, amVars, hmVars, clockVars>>

(* WithReason with the metadata replaced by the reason alone. *)
OnlyReason(metadata, reason) == [reason |-> reason]

(* { ...signal.metadata, reason: 'Low confidence' } *)
WithReason(metadata, reason) ==
  [k \in DOMAIN metadata \cup {"reason"} |->
     IF k = "reason" THEN reason ELSE metadata[k]]

(* Update with a cancellation that also clears the confidence. *)
UpdateClearingConfidence(signal, write) ==
  [store EXCEPT ![signal.id] =
     IF write = "cancelled"
     THEN [@ EXCEPT !.status = "cancelled", !.confidence = 0,
                    !.metadata = WithReason(signal.metadata, "Low confidence")]
     ELSE [@ EXCEPT !.status = "executed"]]

(* signal.update(values): UPDATE ... WHERE id = signal.id *)
Update(signal, write) ==
  [store EXCEPT ![signal.id] =
     IF write = "cancelled"
     THEN [@ EXCEPT !.status = "cancelled",
                    !.metadata = WithReason(signal.metadata, "Low confidence")]
     ELSE [@ EXCEPT !.status = "executed"]]

(* The value executeTrade returns after its update. *)
TradeResult(write) ==
  IF write = "cancelled"
  THEN [success |-> FALSE, message |-> "Signal confidence too low for execution"]
  ELSE [success |-> TRUE, executed |-> TRUE]

ETWrite(c) ==
  /\ calls[c].pc = "update"
  /\ store' = Update(calls[c].signal, calls[c].write)
  /\ calls' = [calls EXCEPT ![c].pc = "done",
                            ![c].result = TradeResult(calls[c].write)]
  /\ UNCHANGED <<amVars, hmVars, clockVars>>

(***************************************************************************)
(* HiveMatrix: three Bull queues.  A queue field counts the Queue objects  *)
(* assigned to it (0 is null); the jobs live under the queue's name.       *)
(***************************************************************************)
Lanes == {"trade", "analysis", "monitor"}
MaxInits == 1
MaxWorkers == 2

NoQueues == [tradeQueue |-> 0, analysisQueue |-> 0, monitorQueue |-> 0]

(* queue.getJobCounts() of a queue without jobs *)
NoCounts == [waiting |-> 0, active |-> 0, completed |-> 0, failed |-> 0,
             delayed |-> 0]

(* A queueTrade or queueAnalysis call: where it is, its payload and the    *)
(* Queue object its add was called on.                                     *)
MaxAdds == 2
NoAdd == [op |-> "none", pc |-> "idle", data |-> [symbol |-> ""], queue |-> 0]

(* The getSystemStatus call: where it is, how many calls were made, the    *)
(* counts it has read and whether it threw.                                *)
NoStatus == [pc |-> "idle", runs |-> 0, trade |-> NoCounts,
             analysis |-> NoCounts, monitor |-> NoCounts, error |-> FALSE]

(* initialize(): three new Bull queues, each with its processor *)
Initialized(q) == [tradeQueue |-> q.tradeQueue + 1,
                   analysisQueue |-> q.analysisQueue + 1,
                   monitorQueue |-> q.monitorQueue + 1]

HMInitialize ==
  /\ queues' = Initialized(queues)
  /\ UNCHANGED <<store, amVars, etVars, jobs, workers, status, adds, clockVars>>

TradePriority == 1
TradeAttempts == 3
TradeBackoffDelay == 1000
AnalysisPriority == 2
AnalysisAttempts == 2
AnalysisBackoffDelay == 2000

(* The place a job takes in the waiting list: behind every job so far. *)
RECURSIVE MaxSeq(_)
MaxSeq(k) == IF k = 0 THEN 0
             ELSE LET m == MaxSeq(k - 1)
                  IN IF jobs[k].seq > m THEN jobs[k].seq ELSE m
NextSeq == MaxSeq(Len(jobs)) + 1

(* queue.add(data, opts): a waiting job of the Queue object `queue`.       *)
(* attemptsMade counts the failed attempts, stalledCounter the stalls, and *)
(* delay is the backoff the job is waiting out while it is delayed.        *)
NewJob(id, lane, data, priority, attempts, backoffType, delay, queue) ==
  [id |-> id, lane |-> lane, data |-> data, priority |-> priority,
   attempts |-> attempts, backoff |-> [type |-> backoffType, delay |-> delay],
   attemptsMade |-> 0, state |-> "waiting", seq |-> NextSeq, delay |-> 0,
   stalledCounter |-> 0, queue |-> queue]

(* The payloads of the callers: a symbol and the signal the job is for. *)
TradeData == {[symbol |-> s, signalId |-> 1] : s \in RequestedSymbols}
AnalysisData == {[symbol |-> s] : s \in RequestedSymbols}

(* if (!this.tradeQueue) await this.initialize() *)
LazyAlways(queue) == TRUE
Lazy(queue) == queue = 0

(* queueTrade with five attempts. *)
HMQueueTradeFiveAttempts(tradeData) ==
  /\ queues' = IF Lazy(queues.tradeQueue) THEN Initialized(queues) ELSE queues
  /\ jobs' = Append(jobs, NewJob(Len(jobs) + 1, "trade", tradeData, TradePriority,
                                 5, "exponential", TradeBackoffDelay,
                                 queues'.tradeQueue))
  /\ UNCHANGED <<store, amVars, etVars, workers, status, adds, clockVars>>

(* queueTrade with the fixed backoff of queueAnalysis. *)
HMQueueTradeFixed(tradeData) ==
  /\ queues' = IF Lazy(queues.tradeQueue) THEN Initialized(queues) ELSE queues
  /\ jobs' = Append(jobs, NewJob(Len(jobs) + 1, "trade", tradeData, TradePriority,
                                 TradeAttempts, "fixed", TradeBackoffDelay,
                                 queues'.tradeQueue))
  /\ UNCHANGED <<store, amVars, etVars, workers, status, adds, clockVars>>

(* queueTrade(tradeData), run to its end *)
HMQueueTrade(tradeData) ==
  /\ queues' = IF Lazy(queues.tradeQueue) THEN Initialized(queues) ELSE queues
  /\ jobs' = Append(jobs, NewJob(Len(jobs) + 1, "trade", tradeData, TradePriority,
                                 TradeAttempts, "exponential", TradeBackoffDelay,
                                 queues'.tradeQueue))
  /\ UNCHANGED <<store, amVars, etVars, workers, status, adds, clockVars>>

(* queueAnalysis adding its job to the trade queue. *)
HMQueueAnalysisOnTradeQueue(analysisData) ==
  /\ queues' = IF Lazy(queues.analysisQueue) THEN Initialized(queues) ELSE queues
  /\ jobs' = Append(jobs, NewJob(Len(jobs) + 1, "trade", analysisData,
                                 AnalysisPriority, AnalysisAttempts, "fixed",
                                 AnalysisBackoffDelay, queues'.tradeQueue))
  /\ UNCHANGED <<store, amVars, etVars, workers, status, adds, clockVars>>

(* queueAnalysis(analysisData), run to its end *)
HMQueueAnalysis(analysisData) ==
  /\ queues' = IF Lazy(queues.analysisQueue) THEN Initialized(queues) ELSE queues
  /\ jobs' = Append(jobs, NewJob(Len(jobs) + 1, "analysis", analysisData,
                                 AnalysisPriority, AnalysisAttempts, "fixed",
                                 AnalysisBackoffDelay, queues'.analysisQueue))
  /\ UNCHANGED <<store, amVars, etVars, workers, status, adds, clockVars>>

(* The Queue objects of a lane; each has one processor of concurrency 1. *)
QueuesOf(lane) == IF lane = "trade" THEN queues.tradeQueue
                  ELSE IF lane = "analysis" THEN queues.analysisQueue
                  ELSE queues.monitorQueue

(* The processors: the n-th Queue object of a lane runs one job at a time. *)
WorkerIds == Lanes \X (1..MaxWorkers)
Registered(w) == w[2] <= QueuesOf(w[1])

InState(lane, state) ==
  {k \in 1..Len(jobs) : jobs[k].lane = lane /\ jobs[k].state = state}

(* The waiting jobs of a lane with the newest taken first. *)
NextWaitingNewest(lane) ==
  {k \in InState(lane, "waiting") :
     \A m \in InState(lane, "waiting") : m <= k}

(* The waiting jobs a lane delivers next: those of the smallest priority   *)
(* number and, among them, the first of the waiting list.                  *)
NextWaiting(lane) ==
  {k \in InState(lane, "waiting") :
     \A m \in InState(lane, "waiting") :
       \/ jobs[k].priority < jobs[m].priority
       \/ (jobs[k].priority = jobs[m].priority /\ jobs[k].seq <= jobs[m].seq)}

(* HMProcess taking a job of the lane whether or not it is still waiting. *)
HMProcessUnlocked(w, j) ==
  /\ Registered(w)
  /\ workers[w] = 0
  /\ j \in 1..Len(jobs)
  /\ jobs[j].lane = w[1]
  /\ jobs' = [jobs EXCEPT ![j].state = "active"]
  /\ workers' = [workers EXCEPT ![w] = j]
  /\ UNCHANGED <<store, amVars, etVars, queues, status, adds, clockVars>>

(* A free processor of the lane takes its next waiting job. *)
HMProcess(w, j) ==
  /\ Registered(w)
  /\ workers[w] = 0
  /\ j \in NextWaiting(w[1])
  /\ jobs' = [jobs EXCEPT ![j].state = "active"]
  /\ workers' = [workers EXCEPT ![w] = j]
  /\ UNCHANGED <<store, amVars, etVars, queues, status, adds, clockVars>>

(* The processor returns { success: true, jobId }: the job is completed. *)
HMComplete(w) ==
  /\ workers[w] # 0
  /\ jobs' = [jobs EXCEPT ![workers[w]].state = "completed"]
  /\ workers' = [workers EXCEPT ![w] = 0]
  /\ UNCHANGED <<store, amVars, etVars, queues, status, adds, clockVars>>

(* backoff: { type, delay } after attemptsMade failed attempts:            *)
(* fixed is delay, exponential is (2^attemptsMade - 1) * delay.            *)
BackoffDelay(backoff, attemptsMade) ==
  IF backoff.type = "exponential"
  THEN (2 ^ attemptsMade - 1) * backoff.delay
  ELSE backoff.delay

(* HMFail with the job delayed again whatever its attempts. *)
HMFailAlwaysRetry(w) ==
  /\ workers[w] # 0
  /\ jobs' = [jobs EXCEPT ![workers[w]] =
       [@ EXCEPT !.attemptsMade = @ + 1, !.state = "delayed",
                 !.delay = BackoffDelay(jobs[workers[w]].backoff,
                                        jobs[workers[w]].attemptsMade + 1)]]
  /\ workers' = [workers EXCEPT ![w] = 0]
  /\ UNCHANGED <<store, amVars, etVars, queues, status, adds, clockVars>>

(* The processor rejects: the attempt is counted; the job is delayed by    *)
(* its backoff while attempts are left and failed when none is.            *)
HMFail(w) ==
  /\ workers[w] # 0
  /\ LET job == jobs[workers[w]]
         made == job.attemptsMade + 1
     IN jobs' = [jobs EXCEPT ![workers[w]] =
          IF made < job.attempts
          THEN [job EXCEPT !.attemptsMade = made, !.state = "delayed",
                           !.delay = BackoffDelay(job.backoff, made)]
          ELSE [job EXCEPT !.attemptsMade = made, !.state = "failed"]]
  /\ workers' = [workers EXCEPT ![w] = 0]
  /\ UNCHANGED <<store, amVars, etVars, queues, status, adds, clockVars>>

(* The delay of a delayed job is over: it joins the waiting list. *)
HMPromote(j) ==
  /\ j \in 1..Len(jobs)
  /\ jobs[j].state = "delayed"
  /\ jobs' = [jobs EXCEPT ![j].state = "waiting", ![j].delay = 0,
                          ![j].seq = NextSeq]
  /\ UNCHANGED <<store, amVars, etVars, queues, workers, status, adds, clockVars>>

(* Stalls a queue allows a job before it fails it (Bull's default). *)
MaxStalledCount == 1

(* HMStall with the stall counted as a failed attempt. *)
HMStallConsumingAttempt(w) ==
  /\ workers[w] # 0
  /\ LET job == jobs[workers[w]]
         made == job.attemptsMade + 1
     IN jobs' = [jobs EXCEPT ![workers[w]] =
          IF made < job.attempts
          THEN [job EXCEPT !.attemptsMade = made, !.stalledCounter = @ + 1,
                           !.state = "waiting"]
          ELSE [job EXCEPT !.attemptsMade = made, !.stalledCounter = @ + 1,
                           !.state = "failed"]]
  /\ workers' = [workers EXCEPT ![w] = 0]
  /\ UNCHANGED <<store, amVars, etVars, queues, status, adds, clockVars>>

(* The processor stops renewing the lock of its job (it crashed or is      *)
(* blocked): the queue puts the job back at the head of the waiting list,  *)
(* or fails it when it has stalled more than MaxStalledCount times.        *)
HMStall(w) ==
  /\ workers[w] # 0
  /\ LET job == jobs[workers[w]]
         stalled == job.stalledCounter + 1
     IN jobs' = [jobs EXCEPT ![workers[w]] =
          IF stalled > MaxStalledCount
          THEN [job EXCEPT !.stalledCounter = stalled, !.state = "failed"]
          ELSE [job EXCEPT !.stalledCounter = stalled, !.state = "waiting"]]
  /\ workers' = [workers EXCEPT ![w] = 0]
  /\ UNCHANGED <<store, amVars, etVars, queues, status, adds, clockVars>>

(***************************************************************************)
(* queueTrade and queueAnalysis, one action per await, for the calls that  *)
(* start while another call is still inside initialize().                  *)
(***************************************************************************)
(* if (!this.tradeQueue) await this.initialize(): the queues are created   *)
(* and the processors registered before initialize() first awaits;         *)
(* otherwise this.tradeQueue.add is called on the queue that is there.     *)
QTStart(c, tradeData) ==
  /\ adds[c].pc = "idle"
  /\ LET lazy == Lazy(queues.tradeQueue)
     IN /\ queues' = IF lazy THEN Initialized(queues) ELSE queues
        /\ adds' = [adds EXCEPT ![c] =
             [op |-> "trade", pc |-> IF lazy THEN "initLog" ELSE "add",
              data |-> tradeData, queue |-> IF lazy THEN 0 ELSE queues.tradeQueue]]
  /\ UNCHANGED <<store, amVars, etVars, jobs, workers, status, clockVars>>

(* if (!this.analysisQueue) await this.initialize() *)
QAStart(c, analysisData) ==
  /\ adds[c].pc = "idle"
  /\ LET lazy == Lazy(queues.analysisQueue)
     IN /\ queues' = IF lazy THEN Initialized(queues) ELSE queues
        /\ adds' = [adds EXCEPT ![c] =
             [op |-> "analysis", pc |-> IF lazy THEN "initLog" ELSE "add",
              data |-> analysisData,
              queue |-> IF lazy THEN 0 ELSE queues.analysisQueue]]
  /\ UNCHANGED <<store, amVars, etVars, jobs, workers, status, clockVars>>

(* initialize() has logged and returned: add is called on the queue the    *)
(* field holds now.                                                        *)
QInitLogged(c) ==
  /\ adds[c].pc = "initLog"
  /\ adds' = [adds EXCEPT ![c].pc = "add",
                          ![c].queue = QueuesOf(adds[c].op)]
  /\ UNCHANGED <<store, amVars, etVars, queues, jobs, workers, status, clockVars>>

(* job = await this.tradeQueue.add(tradeData, {...}); return *)
QTAdd(c) ==
  /\ adds[c].op = "trade"
  /\ adds[c].pc = "add"
  /\ jobs' = Append(jobs, NewJob(Len(jobs) + 1, "trade", adds[c].data,
                                 TradePriority, TradeAttempts, "exponential",
                                 TradeBackoffDelay, adds[c].queue))
  /\ adds' = [adds EXCEPT ![c].pc = "done"]
  /\ UNCHANGED <<store, amVars, etVars, queues, workers, status, clockVars>>

(* job = await this.analysisQueue.add(analysisData, {...}); return *)
QAAdd(c) ==
  /\ adds[c].op = "analysis"
  /\ adds[c].pc = "add"
  /\ jobs' = Append(jobs, NewJob(Len(jobs) + 1, "analysis", adds[c].data,
                                 AnalysisPriority, AnalysisAttempts, "fixed",
                                 AnalysisBackoffDelay, adds[c].queue))
  /\ adds' = [adds EXCEPT ![c].pc = "done"]
  /\ UNCHANGED <<store, amVars, etVars, queues, workers, status, clockVars>>

(* An awaited call rejects: 'Failed to queue trade' / 'Failed to queue     *)
(* analysis'; what initialize() assigned stays assigned.                   *)
QThrow(c) ==
  /\ adds[c].pc \in {"initLog", "add"}
  /\ adds' = [adds EXCEPT ![c].pc = "failed"]
  /\ UNCHANGED <<store, amVars, etVars, queues, jobs, workers, status, clockVars>>

(***************************************************************************)
(* HiveMatrix.getSystemStatus(), one action per await.                     *)
(***************************************************************************)
(* queue.getJobCounts(): the jobs of the queue's name in each state *)
JobCounts(lane) ==
  [waiting |-> Cardinality(InState(lane, "waiting")),
   active |-> Cardinality(InState(lane, "active")),
   completed |-> Cardinality(InState(lane, "completed")),
   failed |-> Cardinality(InState(lane, "failed")),
   delayed |-> Cardinality(InState(lane, "delayed"))]

(* if (!tradeQueue || !analysisQueue || !monitorQueue) await initialize() *)
GSStart ==
  /\ status.pc = "idle"
  /\ LET lazy == \/ Lazy(queues.tradeQueue)
                 \/ Lazy(queues.analysisQueue)
                 \/ Lazy(queues.monitorQueue)
     IN /\ queues' = IF lazy THEN Initialized(queues) ELSE queues
        /\ status' = [NoStatus EXCEPT !.pc = IF lazy THEN "initLog" ELSE "trade",
                                      !.runs = status.runs + 1]
  /\ UNCHANGED <<store, amVars, etVars, jobs, workers, adds, clockVars>>

(* initialize() has logged and returned *)
GSInitLogged ==
  /\ status.pc = "initLog"
  /\ status' = [status EXCEPT !.pc = "trade"]
  /\ UNCHANGED <<store, amVars, etVars, queues, jobs, workers, adds, clockVars>>

(* tradeCount = await this.tradeQueue.getJobCounts() *)
GSTrade ==
  /\ status.pc = "trade"
  /\ status' = [status EXCEPT !.pc = "analysis", !.trade = JobCounts("trade")]
  /\ UNCHANGED <<store, amVars, etVars, queues, jobs, workers, adds, clockVars>>

(* GSAnalysis reading the counts of the trade queue. *)
GSAnalysisFromTrade ==
  /\ status.pc = "analysis"
  /\ status' = [status EXCEPT !.pc = "monitor", !.analysis = JobCounts("trade")]
  /\ UNCHANGED <<store, amVars, etVars, queues, jobs, workers, adds, clockVars>>

(* analysisCount = await this.analysisQueue.getJobCounts() *)
GSAnalysis ==
  /\ status.pc = "analysis"
  /\ status' = [status EXCEPT !.pc = "monitor", !.analysis = JobCounts("analysis")]
  /\ UNCHANGED <<store, amVars, etVars, queues, jobs, workers, adds, clockVars>>

(* monitorCount = await this.monitorQueue.getJobCounts() *)
GSMonitor ==
  /\ status.pc = "monitor"
  /\ status' = [status EXCEPT !.pc = "logs", !.monitor = JobCounts("monitor")]
  /\ UNCHANGED <<store, amVars, etVars, queues, jobs, workers, adds, clockVars>>

(* SystemLog.findAll and return { success: true, queues: { ... } } *)
GSReturn ==
  /\ status.pc = "logs"
  /\ status' = [status EXCEPT !.pc = "idle"]
  /\ UNCHANGED <<store, amVars, etVars, queues, jobs, workers, adds, clockVars>>

(* An awaited call rejects: 'Failed to get system status' *)
GSThrow ==
  /\ status.pc \in {"initLog", "trade", "analysis", "monitor", "logs"}
  /\ status' = [status EXCEPT !.pc = "idle", !.error = TRUE]
  /\ UNCHANGED <<store, amVars, etVars, queues, jobs, workers, adds, clockVars>>

(***************************************************************************)
(* The program: the modules are constructed, the store is empty.           *)
(***************************************************************************)
Init ==
  /\ store = <<>>
  /\ amRuns = 0
  /\ amPc = "idle"
  /\ amSymbol = "BTC"
  /\ amSignals = <<>>
  /\ amPatternId = 0
  /\ amAcc = ZeroAcc
  /\ amResult = NoResult
  /\ calls = [c \in 1..MaxCalls |-> NoCall]
  /\ queues = NoQueues
  /\ jobs = <<>>
  /\ workers = [w \in WorkerIds |-> 0]
  /\ status = NoStatus
  /\ adds = [c \in 1..MaxAdds |-> NoAdd]
  /\ now = 0

Next ==
  \/ \E symbol \in RequestedSymbols : AMStart(symbol)
  \/ AMCyber
  \/ AMTwitter
  \/ AMDeepseek
  \/ AMFindPattern
  \/ AMThrow
  \/ AMFuse
  \/ \E c \in 1..MaxCalls, module \in Modules, id \in 1..(MaxStore + 1) :
       ETRead(c, module, id)
  \/ \E c \in 1..MaxCalls : ETWrite(c)
  \/ queues.tradeQueue < MaxInits /\ HMInitialize
  \/ Len(jobs) < MaxJobs /\ \E data \in TradeData : HMQueueTrade(data)
  \/ Len(jobs) < MaxJobs /\ \E data \in AnalysisData : HMQueueAnalysis(data)
  \/ \E w \in WorkerIds, j \in 1..MaxJobs : HMProcess(w, j)
  \/ \E w \in WorkerIds : HMComplete(w)

Spec == Init /\ [][Next]_vars

(***************************************************************************)
(* The signals under the clock: analyzeMarket and executeTrade while time  *)
(* passes, in steps of ClockStep hours.  No operation of the program waits *)
(* for the clock, so Spec takes the calls at one instant.                  *)
(***************************************************************************)
ClockStep == 12
MaxTicks == 2

Tick ==
  /\ now' = now + ClockStep
  /\ UNCHANGED <<store, amVars, etVars, hmVars>>

NextClock ==
  \/ \E symbol \in RequestedSymbols : AMStart(symbol)
  \/ AMCyber
  \/ AMTwitter
  \/ AMDeepseek
  \/ AMFindPattern
  \/ AMThrow
  \/ AMFuse
  \/ \E c \in 1..MaxCalls, module \in Modules, id \in 1..(MaxStore + 1) :
       ETRead(c, module, id)
  \/ \E c \in 1..MaxCalls : ETWrite(c)
  \/ now < MaxTicks * ClockStep /\ Tick

SpecClock == Init /\ [][NextClock]_vars

(***************************************************************************)
(* The job lanes on their own: up to MaxLaneJobs jobs added to the trade   *)
(* and the analysis queue, delivered and completed.                        *)
(***************************************************************************)
MaxLaneJobs == 3

NextLanes ==
  \/ queues.tradeQueue < MaxInits /\ HMInitialize
  \/ Len(jobs) < MaxLaneJobs /\ \E data \in TradeData : HMQueueTrade(data)
  \/ Len(jobs) < MaxLaneJobs /\ \E data \in AnalysisData : HMQueueAnalysis(data)
  \/ \E w \in WorkerIds, j \in 1..MaxLaneJobs : HMProcess(w, j)
  \/ \E w \in WorkerIds : HMComplete(w)

SpecLanes == Init /\ [][NextLanes]_vars

(***************************************************************************)
(* The job lanes with what can go wrong around the processors: a handler   *)
(* that rejects, a delay that runs out, a processor that stalls, and a     *)
(* second initialize() whose processors work the same lanes.               *)
(***************************************************************************)
MaxRetryJobs == 2
MaxRetryInits == 2

NextRetry ==
  \/ queues.tradeQueue < MaxRetryInits /\ HMInitialize
  \/ Len(jobs) < MaxRetryJobs /\ \E data \in TradeData : HMQueueTrade(data)
  \/ Len(jobs) < MaxRetryJobs /\ \E data \in AnalysisData : HMQueueAnalysis(data)
  \/ \E w \in WorkerIds, j \in 1..MaxRetryJobs : HMProcess(w, j)
  \/ \E w \in WorkerIds : HMComplete(w)
  \/ \E w \in WorkerIds : HMFail(w)
  \/ \E j \in 1..MaxRetryJobs : HMPromote(j)
  \/ \E w \in WorkerIds : HMStall(w)

SpecRetry == Init /\ [][NextRetry]_vars

(***************************************************************************)
(* getSystemStatus reading the counts while jobs are added, processed,     *)
(* completed and failed.                                                   *)
(***************************************************************************)
MaxStatusCalls == 1
MaxStatusJobs == 2

NextStatus ==
  \/ queues.tradeQueue < MaxInits /\ HMInitialize
  \/ Len(jobs) < MaxStatusJobs /\ \E data \in TradeData : HMQueueTrade(data)
  \/ Len(jobs) < MaxStatusJobs /\ \E data \in AnalysisData : HMQueueAnalysis(data)
  \/ \E w \in WorkerIds, j \in 1..MaxStatusJobs : HMProcess(w, j)
  \/ \E w \in WorkerIds : HMComplete(w)
  \/ \E w \in WorkerIds : HMFail(w)
  \/ \E j \in 1..MaxStatusJobs : HMPromote(j)
  \/ status.runs < MaxStatusCalls /\ GSStart
  \/ GSInitLogged
  \/ GSTrade
  \/ GSAnalysis
  \/ GSMonitor
  \/ GSReturn
  \/ GSThrow

SpecStatus == Init /\ [][NextStatus]_vars

(***************************************************************************)
(* Calls that start while the queues are unset: queueTrade, queueAnalysis  *)
(* and getSystemStatus each taken one await at a time.                     *)
(***************************************************************************)
NextLazy ==
  \/ \E c \in 1..MaxAdds, data \in TradeData : QTStart(c, data)
  \/ \E c \in 1..MaxAdds, data \in AnalysisData : QAStart(c, data)
  \/ \E c \in 1..MaxAdds : QInitLogged(c)
  \/ \E c \in 1..MaxAdds : QTAdd(c)
  \/ \E c \in 1..MaxAdds : QAAdd(c)
  \/ \E c \in 1..MaxAdds : QThrow(c)
  \/ status.runs < MaxStatusCalls /\ GSStart
  \/ GSInitLogged
  \/ GSTrade
  \/ GSAnalysis
  \/ GSMonitor
  \/ GSReturn
  \/ GSThrow
  \/ \E w \in WorkerIds, j \in 1..MaxAdds : HMProcess(w, j)
  \/ \E w \in WorkerIds : HMComplete(w)

SpecLazy == Init /\ [][NextLazy]_vars

(***************************************************************************)
(* The weighted decision on its own: every list of at most MaxInputs       *)
(* pending signals with a confidence of the column's range, collected and  *)
(* about to be fused.                                                      *)
(***************************************************************************)
FuseConfs == {0, 5000, 8000, 9000}

InputSource(k) == IF k = 1 THEN "CYBER_METRICS"
                  ELSE IF k = 2 THEN "TWITTER_MONITOR" ELSE "DEEPSEEK_AI"

InputMeta(k) == IF k = 1 THEN CyberMeta
                ELSE IF k = 2 THEN TwitterMeta ELSE DeepseekMeta

InitFuse ==
  /\ now = 0
  /\ \E n \in 0..MaxInputs :
     \E acts \in [1..n -> Actions] :
     \E confs \in [1..n -> FuseConfs] :
       store = [k \in 1..n |->
                  NewSignal(k, "BTC", acts[k], confs[k], InputSource(k), InputMeta(k))]
  /\ amSignals = store
  /\ amRuns = 1
  /\ amPc = "fuse"
  /\ amSymbol = "BTC"
  /\ amPatternId = 0
  /\ amAcc = ZeroAcc
  /\ amResult = NoResult
  /\ calls = [c \in 1..MaxCalls |-> NoCall]
  /\ queues = NoQueues
  /\ jobs = <<>>
  /\ workers = [w \in WorkerIds |-> 0]
  /\ status = NoStatus
  /\ adds = [c \in 1..MaxAdds |-> NoAdd]

NextFuse == AMFuse

SpecFuse == InitFuse /\ [][NextFuse]_vars

(***************************************************************************)
(* Properties.                                                             *)
(***************************************************************************)
(* The sum of the confidences of the signals whose action is in acts. *)
RECURSIVE ConfSum(_, _, _)
ConfSum(signals, acts, k) ==
  IF k = 0 THEN 0
  ELSE ConfSum(signals, acts, k - 1)
       + (IF signals[k].action \in acts THEN signals[k].confidence ELSE 0)

BuySum == ConfSum(amSignals, {"buy"}, Len(amSignals))
SellSum == ConfSum(amSignals, {"sell"}, Len(amSignals))
TotalSum == ConfSum(amSignals, Actions, Len(amSignals))
HoldRest == TotalSum - BuySum - SellSum

Succeeded(r) == "success" \in DOMAIN r /\ r.success

(* analyzeMarket has returned the decision fused from amSignals. *)
Fused == amPc = "idle" /\ Succeeded(amResult) /\ Len(amSignals) > 0

(* C1: for non-empty inputs of total weight > 0 the fused action is buy    *)
(* exactly when the buy weight is strictly above both the sell and the     *)
(* hold weight, sell exactly when the sell weight is strictly above both   *)
(* others, and hold in every other case.                                   *)
C1_DecisionRule ==
  (Fused /\ TotalSum > 0) =>
    LET buyWins == BuySum > SellSum /\ BuySum > HoldRest
        sellWins == SellSum > BuySum /\ SellSum > HoldRest
    IN /\ (amResult.action = "buy") <=> buyWins
       /\ (amResult.action = "sell") <=> sellWins
       /\ (amResult.action = "hold") <=> (~buyWins /\ ~sellWins)

C1_Witness ==
  /\ Fused /\ TotalSum > 0
  /\ amResult.action = "sell"
  /\ BuySum > 0 /\ HoldRest > 0

(* C2: when the largest weight is shared by two or more of buy, sell and   *)
(* hold, the fused action is hold and its confidence is holdWeight * 100;  *)
(* fusing {buy,50},{sell,50} gives hold with confidence 0.                 *)
MaxWeight == IF BuySum >= SellSum /\ BuySum >= HoldRest THEN BuySum
             ELSE IF SellSum >= HoldRest THEN SellSum ELSE HoldRest

Tied == Cardinality({x \in {<<"buy", BuySum>>, <<"sell", SellSum>>,
                            <<"hold", HoldRest>>} : x[2] = MaxWeight}) >= 2

C2_TieIsHold ==
  (Fused /\ TotalSum > 0 /\ Tied) =>
    /\ amResult.action = "hold"
    /\ amResult.confidence = Rat(100 * HoldRest, TotalSum)
    /\ (BuySum = 5000 /\ SellSum = 5000 /\ TotalSum = 10000)
         => amResult.confidence = Zero

C2_Witness ==
  /\ Fused /\ Tied
  /\ Len(amSignals) = 2
  /\ amSignals[1].action = "buy" /\ amSignals[1].confidence = 5000
  /\ amSignals[2].action = "sell" /\ amSignals[2].confidence = 5000
  /\ amResult.action = "hold" /\ amResult.confidence = Zero

(* The composite signal the returned decision names. *)
Composite == store[amResult.signalId]

(* C3: the fused confidence is the winning action's weight over the sum of *)
(* the confidences of all inputs, hold signals included, times 100;        *)
(* {buy,90},{buy,80},{sell,50} gives buy with 170/220*100; one more hold   *)
(* signal never raises the normalized buy or sell weight.                  *)
Winning == IF amResult.action = "buy" THEN BuySum
           ELSE IF amResult.action = "sell" THEN SellSum ELSE HoldRest

HoldSignal(c) == NewSignal(Len(store) + 1, "BTC", "hold", c, "CYBER_METRICS", CyberMeta)

C3_Confidence ==
  (Fused /\ TotalSum > 0) =>
    /\ amResult.confidence = Rat(100 * Winning, TotalSum)
    /\ (Len(amSignals) = 3 /\ BuySum = 17000 /\ SellSum = 5000 /\ HoldRest = 0)
         => (amResult.action = "buy" /\ amResult.confidence = Rat(170 * 100, 220))
    /\ \A c \in FuseConfs :
         LET more == Fuse(Append(amSignals, HoldSignal(c))).weights
         IN /\ RLe(more.buyWeight, Composite.metadata.buyWeight)
            /\ RLe(more.sellWeight, Composite.metadata.sellWeight)

C3_Witness ==
  /\ Fused
  /\ Len(amSignals) = 3 /\ BuySum = 17000 /\ SellSum = 5000 /\ HoldRest = 0
  /\ amResult.action = "buy"
  /\ Composite.confidence = 7727

(* C4: when every input has confidence 0 the fusion gives hold with        *)
(* confidence 0, and no NaN weight or confidence is produced or stored.    *)
AllZero == Len(amSignals) > 0 /\ \A k \in 1..Len(amSignals) : amSignals[k].confidence = 0

InUnit(x) == RLe(Zero, x) /\ RLe(x, One)

C5_WeightsSumToOne ==
  (Fused /\ TotalSum > 0) =>
    LET m == Composite.metadata
    IN /\ RAdd(RAdd(m.buyWeight, m.sellWeight), m.holdWeight) = One
       /\ InUnit(m.buyWeight) /\ InUnit(m.sellWeight) /\ InUnit(m.holdWeight)

C5_Witness ==
  /\ Fused /\ TotalSum > 0
  /\ RGt(Composite.metadata.buyWeight, Zero)
  /\ RGt(Composite.metadata.sellWeight, Zero)
  /\ RGt(Composite.metadata.holdWeight, Zero)

(* C6: a fusion requested with zero eligible input signals returns a hold *)
(* decision with confidence 0, not an unsuccessful result.                 *)
ReturnedFromEmpty ==
  amPc = "idle" /\ amRuns > 0 /\ Len(amSignals) = 0 /\ "success" \in DOMAIN amResult

StoredPending(s) == store[s.id].status = "pending"
EligibleInputs == SelectSeq(amSignals, StoredPending)

C7_OnlyPendingCounts ==
  [][(amPc = "fuse" /\ Len(amSignals) > 0 /\ "success" \in DOMAIN amResult')
       => amAcc' = Accumulate(EligibleInputs, Len(EligibleInputs))]_vars

(* C8: every successful fusion creates exactly one new signal, of source   *)
(* GROK_ENGINE and status pending, whose metadata lists the ids of the     *)
(* inputs in the order they were fused and the normalized buy, sell and    *)
(* hold weights of the decision.                                           *)
C8_CompositeCreated ==
  [][(amPc = "fuse" /\ Succeeded(amResult'))
       => LET new == store'[Len(store')]
          IN /\ Len(store') = Len(store) + 1
             /\ SubSeq(store', 1, Len(store)) = store
             /\ new.id = amResult'.signalId
             /\ new.source = "GROK_ENGINE"
             /\ new.status = "pending"
             /\ new.action = amResult'.action
             /\ Len(new.metadata.signalIds) = Len(amSignals)
             /\ \A k \in 1..Len(amSignals) :
                  new.metadata.signalIds[k] = amSignals[k].id
             /\ new.metadata.buyWeight = Rat(BuySum, TotalSum)
             /\ new.metadata.sellWeight = Rat(SellSum, TotalSum)
             /\ new.metadata.holdWeight = Rat(HoldRest, TotalSum)]_vars

C8_Witness ==
  /\ Fused
  /\ Composite.source = "GROK_ENGINE"
  /\ Composite.status = "pending"
  /\ Composite.metadata.signalIds = <<1, 2, 3>>

(* C9: the fusion step changes no field of any stored signal and enqueues  *)
(* no job: every signal stored before it is the same after it, and the     *)
(* queues and their jobs are unchanged.                                    *)
C9_FusionFrame ==
  [][(amPc = "fuse" /\ amPc' # "fuse")
       => (/\ \A i \in 1..Len(store) : store'[i] = store[i]
           /\ jobs' = jobs
           /\ queues' = queues)]_vars

C9_Witness ==
  /\ Fused
  /\ Len(jobs) > 0 /\ jobs[1].state = "waiting"
  /\ \A k \in 1..Len(amSignals) : store[amSignals[k].id] = amSignals[k]

(* C10: once a signal is executed, expired or cancelled no operation       *)
(* changes its status again, and a transition attempt that finds it so    *)
(* ends in an error.                                                       *)
C10_TerminalIsFinal ==
  [][/\ \A i \in 1..Len(store) :
          store[i].status \in Terminal => store'[i].status = store[i].status
     /\ \A c \in 1..MaxCalls :
          (/\ calls[c].pc = "idle" /\ calls'[c].pc # "idle"
           /\ calls'[c].signal # NoSignal
           /\ calls'[c].signal.status \in Terminal)
            => (calls'[c].pc = "done" /\ "error" \in DOMAIN calls'[c].result)]_vars

(* C11: when two transition attempts on the same pending signal interleave *)
(* (each reads it pending, then each writes), exactly one write is applied *)
(* and the other attempt fails: no two calls that have ended have both     *)
(* written the same signal.                                                *)
Applied(c) == calls[c].pc = "done" /\ calls[c].write # "none"

C11_OneWriterWins ==
  \A c, d \in 1..MaxCalls :
    (c # d /\ Applied(c) /\ Applied(d))
      => calls[c].signal.id # calls[d].signal.id

(* C12: a signal becomes executed only after a trade-lane job spawned for  *)
(* it has completed successfully.                                          *)
BecomesExecuted(i) == store[i].status # "executed" /\ store'[i].status = "executed"

SucceededTradeJobFor(i) ==
  \E j \in 1..Len(jobs) :
    /\ jobs[j].lane = "trade"
    /\ jobs[j].data.signalId = i
    /\ jobs[j].state = "completed"

C12_ExecutedOnlyByJob ==
  [][\A i \in 1..Len(store) : BecomesExecuted(i) => SucceededTradeJobFor(i)]_vars

(* C13: when a trade-lane job for a pending signal succeeds, the job       *)
(* becomes completed and the signal is moved to executed in the same step. *)
JobSucceeds(j) == jobs[j].state = "active" /\ jobs'[j].state = "completed"

C13_JobSuccessExecutes ==
  [][\A j \in 1..Len(jobs) :
       (/\ jobs[j].lane = "trade"
        /\ JobSucceeds(j)
        /\ jobs[j].data.signalId \in 1..Len(store)
        /\ store[jobs[j].data.signalId].status = "pending")
         => store'[jobs[j].data.signalId].status = "executed"]_vars

(* C14: once now > expiresAt no step sets the signal's status to executed. *)
Overdue(i) == now > store[i].expiresAt

C14_NoExecutionAfterExpiry ==
  [][\A i \in 1..Len(store) : Overdue(i) => ~BecomesExecuted(i)]_vars

(* C15: a signal still pending when now > expiresAt is moved to expired by *)
(* the sweep before the clock has advanced by another ClockStep hours, and *)
(* a signal becomes expired only when it was pending and overdue.          *)
C15_SweepExpires ==
  [][/\ now' > now =>
          \A i \in 1..Len(store) : ~(store[i].status = "pending" /\ Overdue(i))
     /\ \A i \in 1..Len(store) :
          (store[i].status # "expired" /\ store'[i].status = "expired")
            => (store[i].status = "pending" /\ Overdue(i))]_vars

(* C16: a signal whose confidence is below 75 never has status executed    *)
(* and no trade-lane job is admitted for it, whatever its source.          *)
C16_ThresholdGatesExecution ==
  \A i \in 1..Len(store) :
    BelowThreshold(store[i].confidence) =>
      /\ store[i].status # "executed"
      /\ \A j \in 1..Len(jobs) :
           jobs[j].lane = "trade" => jobs[j].data.signalId # i

(* C17: every cancelled signal carries a reason in its metadata, and the   *)
(* write that cancels a signal keeps every metadata key it had with its    *)
(* value and adds only the reason.                                         *)
C17_CancelKeepsMetadata ==
  [][\A i \in 1..Len(store) :
       /\ store'[i].status = "cancelled" => "reason" \in DOMAIN store'[i].metadata
       /\ (store[i].status # "cancelled" /\ store'[i].status = "cancelled")
            => /\ DOMAIN store'[i].metadata = DOMAIN store[i].metadata \cup {"reason"}
               /\ \A k \in DOMAIN store[i].metadata \ {"reason"} :
                    store'[i].metadata[k] = store[i].metadata[k]]_vars

C17_Witness ==
  \E i \in 1..Len(store) :
    /\ store[i].status = "cancelled"
    /\ store[i].metadata.reason = "Low confidence"
    /\ store[i].metadata.signalIds = <<1, 2>>
    /\ store[i].metadata.buyWeight = Rat(9, 14)

(* C18: no step changes the id, the action or the confidence of a stored   *)
(* signal, and a successful fusion stores its result under an id that no   *)
(* signal had before.                                                      *)
C18_ActionConfidenceImmutable ==
  [][/\ Len(store') >= Len(store)
     /\ \A i \in 1..Len(store) :
          /\ store'[i].id = store[i].id
          /\ store'[i].action = store[i].action
          /\ store'[i].confidence = store[i].confidence
     /\ (amPc = "fuse" /\ Succeeded(amResult'))
          => (/\ amResult'.signalId \notin 1..Len(store)
              /\ store'[amResult'.signalId].id = amResult'.signalId)]_vars

C18_Witness ==
  /\ Fused
  /\ Composite.status = "cancelled"
  /\ Composite.confidence = 6429
  /\ \E i \in 1..Len(store) : store[i].status = "executed" /\ store[i].confidence = 9000

(* C19: every stored signal has a confidence in [0,100], an action, a      *)
(* source and a status of the enumerations, and a fusion whose confidence  *)
(* is not in [0,100] is rejected and leaves the store as it was.           *)
ValidRow(r) ==
  /\ r.confidence \in 0..10000
  /\ r.action \in Actions
  /\ r.source \in Sources
  /\ r.status \in Statuses

Delivered(j) == jobs[j].state = "waiting" /\ jobs'[j].state = "active"

HoldersOf(j) == {w \in WorkerIds : workers[w] = j}

C21_OneWorkerPerJob ==
  [][/\ \A w, v \in WorkerIds :
          (w # v /\ workers'[w] # 0) => workers'[w] # workers'[v]
     /\ \A w \in WorkerIds :
          workers'[w] # 0 => jobs'[workers'[w]].state = "active"
     /\ \A j \in 1..Len(jobs) :
          jobs[j].state = "completed"
            => (jobs'[j].state = "completed" /\ \A w \in WorkerIds : workers'[w] # j)]_vars

C21_Witness ==
  /\ Cardinality(HoldersOf(1)) = 1
  /\ Cardinality(HoldersOf(2)) = 1
  /\ jobs[1].lane = "trade" /\ jobs[2].lane = "trade"
  /\ HoldersOf(1) # HoldersOf(2)

(* C22: a trade job (three attempts) whose processor always rejects is     *)
(* delivered only while fewer than three attempts have failed, is delayed  *)
(* (kept for a later delivery) after the first and the second failure, is  *)
(* failed by the third, and a failed job stays in the queue's failed set.  *)
FailedAttempt(j) ==
  jobs[j].state = "active" /\ jobs'[j].attemptsMade = jobs[j].attemptsMade + 1

C23_DelayDoubles ==
  [][\A j \in 1..Len(jobs) :
       (FailedAttempt(j) /\ jobs'[j].state = "delayed") =>
         IF jobs[j].backoff.type = "exponential"
         THEN \/ jobs'[j].delay = jobs[j].backoff.delay * 2 ^ jobs'[j].attemptsMade
              \/ jobs'[j].delay = jobs[j].backoff.delay * 2 ^ jobs[j].attemptsMade
         ELSE jobs'[j].delay = jobs[j].backoff.delay]_vars

(* C23: trade jobs are added with the exponential policy and 1000 ms,      *)
(* analysis jobs with the fixed policy and 2000 ms; the delay after the    *)
(* n-th failed attempt is the base delay under the fixed policy and        *)
(* (2^n - 1) times the base delay under the exponential policy: 1000 ms    *)
(* and then 3000 ms for a trade job, 2000 ms for an analysis job.          *)
C23_BackoffDelays ==
  [][\A j \in 1..Len(jobs') :
       /\ jobs'[j].lane = "trade"
            => jobs'[j].backoff = [type |-> "exponential", delay |-> 1000]
       /\ jobs'[j].lane = "analysis"
            => jobs'[j].backoff = [type |-> "fixed", delay |-> 2000]
       /\ (j <= Len(jobs) /\ FailedAttempt(j) /\ jobs'[j].state = "delayed") =>
            jobs'[j].delay =
              IF jobs[j].lane = "trade"
              THEN (IF jobs'[j].attemptsMade = 1 THEN 1000 ELSE 3000)
              ELSE 2000]_vars

C23_Witness ==
  /\ \E j \in 1..Len(jobs) :
       jobs[j].lane = "trade" /\ jobs[j].state = "delayed" /\ jobs[j].delay = 3000
  /\ \E j \in 1..Len(jobs) :
       jobs[j].lane = "analysis" /\ jobs[j].state = "delayed" /\ jobs[j].delay = 2000

(* C24: no job has more failed attempts than its attempts option, and a    *)
(* completed or failed job never changes in any field and is held by no    *)
(* processor again.                                                        *)
C24_TerminalJobsAreFinal ==
  [][/\ \A j \in 1..Len(jobs') : jobs'[j].attemptsMade <= jobs'[j].attempts
     /\ \A j \in 1..Len(jobs) :
          jobs[j].state \in {"completed", "failed"}
            => (jobs'[j] = jobs[j] /\ \A w \in WorkerIds : workers'[w] # j)]_vars

C24_Witness ==
  \E j, k \in 1..Len(jobs) :
    /\ jobs[j].state = "failed"
    /\ jobs[j].attemptsMade = jobs[j].attempts
    /\ jobs[k].state = "completed"
    /\ jobs[k].attemptsMade = 1

(* C25, as the specification states it: a job whose processor is lost      *)
(* becomes deliverable again and the loss counts as one failed attempt.    *)
Stalled(j) ==
  jobs[j].state = "active" /\ jobs'[j].stalledCounter = jobs[j].stalledCounter + 1

LaneJobs(js, lane) == SelectSeq(js, LAMBDA job : job.lane = lane)

C28_LanesIndependent ==
  [][/\ Cardinality({lane \in Lanes : LaneJobs(jobs', lane) # LaneJobs(jobs, lane)}) <= 1
     /\ \A w \in WorkerIds : workers'[w] # 0 => jobs'[workers'[w]].lane = w[1]
     /\ \A j \in 1..Len(jobs') :
          /\ jobs'[j].priority = 1 => jobs'[j].lane = "trade"
          /\ jobs'[j].priority = 2 => jobs'[j].lane = "analysis"
          /\ "signalId" \in DOMAIN jobs'[j].data <=> jobs'[j].lane = "trade"]_vars

C28_Witness ==
  /\ \E w \in WorkerIds : w[1] = "trade" /\ workers[w] # 0
  /\ \E w \in WorkerIds : w[1] = "analysis" /\ workers[w] # 0
  /\ \E j \in 1..Len(jobs) : jobs[j].lane = "trade" /\ jobs[j].attemptsMade = 1

(* C26: the counts getSystemStatus reads for a lane are the numbers of the  *)
(* lane's jobs in each state at the moment of the read, whatever was added,*)
(* delivered, completed or failed before and between the reads, and they   *)
(* sum to the number of jobs ever added to the lane.                       *)
TrueCount(lane, state) ==
  Cardinality({j \in 1..Len(jobs) : jobs[j].lane = lane /\ jobs[j].state = state})

Snapshot(counts, lane) ==
  /\ counts.waiting = TrueCount(lane, "waiting")
  /\ counts.active = TrueCount(lane, "active")
  /\ counts.completed = TrueCount(lane, "completed")
  /\ counts.failed = TrueCount(lane, "failed")
  /\ counts.delayed = TrueCount(lane, "delayed")
  /\ counts.waiting + counts.active + counts.completed + counts.failed
       + counts.delayed = Len(LaneJobs(jobs, lane))

PendingSignal(id) == id \in 1..Len(store) /\ store[id].status = "pending"

C27_AbortsWhenNotPending ==
  [][\A j \in 1..Len(jobs) :
       (jobs[j].lane = "trade" /\ JobSucceeds(j))
         => PendingSignal(jobs[j].data.signalId)]_vars

(* C29: whatever the order of the queueTrade, queueAnalysis and            *)
(* getSystemStatus calls that start while the queues are unset, each queue *)
(* field is assigned once, each lane has one processor, and every job is   *)
(* added to the Queue object its field still holds.                        *)
C29_LazyInitOnce ==
  /\ \A lane \in Lanes :
       /\ QueuesOf(lane) <= 1
       /\ Cardinality({w \in WorkerIds : w[1] = lane /\ Registered(w)}) <= 1
  /\ \A j \in 1..Len(jobs) : jobs[j].queue = QueuesOf(jobs[j].lane)
  /\ \A c \in 1..MaxAdds : adds[c].pc \in {"add", "done"} => adds[c].queue = 1

C29_Witness ==
  /\ \E c, d \in 1..MaxAdds :
       /\ adds[c].pc = "initLog" /\ adds[c].op = "trade"
       /\ adds[d].pc = "done" /\ adds[d].op = "analysis"
  /\ status.pc = "analysis"
  /\ Len(jobs) = 1

(* C30: an executeTrade call that finds no signal, a signal of another     *)
(* source (GrokEngine) or a signal that is not pending ends with an error  *)
(* and writes nothing, the store is as it was; a call that returns success *)
(* has changed at most the status of the signal it names.                  *)
Rejects(module, signal) ==
  \/ signal = NoSignal
  \/ (module = "GROK_ENGINE" /\ signal.source # "GROK_ENGINE")
  \/ signal.status # "pending"

C30_RejectionWritesNothing ==
  [][\A c \in 1..MaxCalls :
       /\ (/\ calls[c].pc = "idle" /\ calls'[c].pc # "idle"
           /\ Rejects(calls'[c].module, calls'[c].signal))
            => /\ calls'[c].pc = "done"
               /\ calls'[c].write = "none"
               /\ "error" \in DOMAIN calls'[c].result
               /\ store' = store
       /\ (calls[c].pc = "done" /\ calls[c].write = "none")
            => calls'[c] = calls[c]
       /\ (/\ calls[c].pc = "update" /\ calls'[c].pc = "done"
           /\ calls'[c].result = [success |-> TRUE, executed |-> TRUE])
            => /\ Len(store') = Len(store)
               /\ \A i \in 1..Len(store) :
                    store'[i] = IF i = calls[c].signal.id
                                THEN [store[i] EXCEPT !.status = "executed"]
                                ELSE store[i]]_vars

C30_Witness ==
  /\ \E c \in 1..MaxCalls :
       /\ calls[c].pc = "done"
       /\ calls[c].module = "GROK_ENGINE"
       /\ calls[c].signal # NoSignal
       /\ calls[c].signal.source = "CYBER_METRICS"
       /\ calls[c].signal.status = "pending"
       /\ calls[c].result = TradeError("Signal is not from Grok Engine")
  /\ \E c \in 1..MaxCalls :
       /\ calls[c].pc = "done"
       /\ calls[c].module = "CYBER_METRICS"
       /\ calls[c].result = [success |-> TRUE, executed |-> TRUE]

====
